---- MODULE Spec2Model ----
(***************************************************************************)
(* A model of custom/capcom_arcade_stadium/rebuild.py: the KPKA container  *)
(* reader (parse_kpka_archive), the transform engine (transforms), the     *)
(* default reconstruction (rebuild_mame_subfolder_zip) and the             *)
(* orchestrator (main).                                                    *)
(*                                                                         *)
(* Bytes are integers 0..255, byte strings are sequences of bytes.  Python *)
(* offsets are 0-based and TLA+ sequences 1-based: byte k of a Python      *)
(* object is element k+1 of the sequence that models it.                   *)
(***************************************************************************)
EXTENDS Integers, Sequences, FiniteSets, TLC

VARIABLES
    \* ---- parse_kpka_archive
    bytes,        \* the argument: the container's bytes
    byteorder,    \* sys.byteorder of the host
    declared,     \* what the producer of the container wrote: [n, descs, cut]
    ppc,          \* position in parse_kpka_archive
    total_files,  \* local total_files
    x,            \* loop variable x
    curr_pos,     \* local curr_pos
    files,        \* local dict files, in insertion order: <<offset, contents>>
    rlog,         \* the locals of every finished iteration, in order
    \* ---- transforms
    zin,          \* the argument contents: the bytes of the embedded archive
    orig_data,    \* dict orig_data: <<part type, bytes>>
    parts,        \* override_meta['parts'] in order: [type, files, transforms]
    tpc,          \* position in transforms
    exc,          \* the exception transforms raised, "" if none
    pidx,         \* number of parts finished
    tidx,         \* number of transforms applied to the current part
    chunks,       \* local chunks
    pair_i,       \* loop variable i of the pairing loop
    new_data,     \* dict new_data: <<name, chunk>>
    out,          \* the "Bad Checksum" lines printed
    hist,         \* the values chunks took for the current part, in order
    emitted,      \* the assignments new_data[name] = chunk made for the current part
    \* ---- rebuild_mame_subfolder_zip
    rzip,         \* the argument contents
    rpc,          \* position in rebuild_mame_subfolder_zip
    rebuilt,      \* what it returned or raised
    \* ---- main
    in_files,     \* find_files(in_path): [name, content, readable] of every .pak file
    romlist,      \* read_romlist()["roms"]: <<id, rom_metadata>>
    mpc,          \* position in main
    fidx,         \* number of files the loop is done with
    id,           \* local id
    kpka_zips,    \* local dict kpka_zips: <<offset, contents>>
    zidx,         \* number of entries of kpka_zips the loop is done with
    written,      \* the files of out_path: <<filename, contents>>
    attempted,    \* the files the loop body was entered for, in order
    handled,      \* the entries of kpka_zips whose handling came to its end
    errlog        \* what the container-level handler caught: [file, entry, err]

readerVars == <<bytes, byteorder, declared, ppc, total_files, x, curr_pos, files, rlog>>

engineVars == <<zin, orig_data, parts, tpc, exc, pidx, tidx, chunks, pair_i, new_data, out, hist, emitted>>

rebuildVars == <<rzip, rpc, rebuilt>>

mainVars == <<in_files, romlist, mpc, fidx, id, kpka_zips, zidx, written, attempted,
              handled, errlog>>

vars == <<readerVars, engineVars, rebuildVars, mainVars>>

----------------------------------------------------------------------------
(* Python built-ins used throughout.                                       *)

Min(a, b) == IF a <= b THEN a ELSE b

Max(a, b) == IF a >= b THEN a ELSE b

\* seq[a:b] for 0 <= a, 0 <= b: both ends are clipped to the length.
Slice(s, a, b) ==
    LET lo == Min(a, Len(s))
        hi == Min(b, Len(s))
    IN  IF hi <= lo THEN <<>> ELSE SubSeq(s, lo + 1, hi)

RECURSIVE Reverse(_)
Reverse(s) == IF s = <<>> THEN <<>> ELSE Append(Reverse(Tail(s)), Head(s))

RECURSIVE LittleValue(_)
LittleValue(s) == IF s = <<>> THEN 0 ELSE Head(s) + 256 * LittleValue(Tail(s))

\* int.from_bytes(s, order): unsigned; the empty string gives 0.
FromBytes(s, order) ==
    IF order = "little" THEN LittleValue(s) ELSE LittleValue(Reverse(s))

\* A Python dict keeps its keys in first-insertion order; assigning to a key
\* that is present replaces the value in place.
DictHas(d, k) == \E i \in 1..Len(d) : d[i][1] = k

DictGet(d, k) == d[CHOOSE i \in 1..Len(d) : d[i][1] = k][2]

DictPut(d, k, v) ==
    IF DictHas(d, k)
    THEN [i \in 1..Len(d) |-> IF d[i][1] = k THEN <<k, v>> ELSE d[i]]
    ELSE Append(d, <<k, v>>)

Ok(v) == [ok |-> TRUE, val |-> v, err |-> ""]

RaiseOf(kind) == [ok |-> FALSE, val |-> <<>>, err |-> kind]

Raise == RaiseOf("Exception")

RECURSIVE Concat(_)
Concat(ss) == IF ss = <<>> THEN <<>> ELSE Head(ss) \o Concat(Tail(ss))

----------------------------------------------------------------------------
(* zlib.decompress(data, wbits = -15): raw inflate.  Stored blocks         *)
(* (BTYPE 00) and the reserved block type (BTYPE 11) are decoded as zlib   *)
(* decodes them; the containers below hold no Huffman-coded block, and a   *)
(* stream that starts one is reported by NoHuffman.                        *)

BlockType(b) == (b \div 2) % 4

RECURSIVE InflateFrom(_, _, _)
InflateFrom(s, pos, acc) ==
    IF pos + 1 > Len(s) THEN Raise                       \* incomplete stream
    ELSE LET hd   == s[pos + 1]
             len  == LittleValue(Slice(s, pos + 1, pos + 3))
             nlen == LittleValue(Slice(s, pos + 3, pos + 5))
         IN  IF BlockType(hd) # 0 THEN Raise             \* invalid block type
             ELSE IF pos + 5 > Len(s) THEN Raise         \* incomplete stream
             ELSE IF len + nlen # 65535 THEN Raise       \* invalid stored block lengths
             ELSE IF pos + 5 + len > Len(s) THEN Raise   \* incomplete stream
             ELSE IF hd % 2 = 1
                  THEN Ok(acc \o Slice(s, pos + 5, pos + 5 + len))
                  ELSE InflateFrom(s, pos + 5 + len, acc \o Slice(s, pos + 5, pos + 5 + len))

Inflate(s) == InflateFrom(s, 0, <<>>)

RECURSIVE HuffmanAt(_, _)
HuffmanAt(s, pos) ==
    IF pos + 1 > Len(s) THEN FALSE
    ELSE LET hd  == s[pos + 1]
             len == LittleValue(Slice(s, pos + 1, pos + 3))
         IN  IF BlockType(hd) \in {1, 2} THEN TRUE
             ELSE IF BlockType(hd) = 3 THEN FALSE
             ELSE IF pos + 5 + len > Len(s) \/ hd % 2 = 1 THEN FALSE
             ELSE IF len + LittleValue(Slice(s, pos + 3, pos + 5)) # 65535 THEN FALSE
             ELSE HuffmanAt(s, pos + 5 + len)

----------------------------------------------------------------------------
(* parse_kpka_archive                                                      *)

HeaderSize == 16

DescriptorSize == 48

RawSentinel == 1024

Magic == <<75, 80, 75, 65>>          \* "KPKA"

\* The fields one iteration of the loop reads at curr_pos.
DecodeDescriptor(bs, p, order) ==
    [ name_crc_l |-> FromBytes(Slice(bs, p, p + 4), order),
      name_crc_u |-> FromBytes(Slice(bs, p + 4, p + 8), order),
      offset     |-> FromBytes(Slice(bs, p + 8, p + 16), order),
      zsize      |-> FromBytes(Slice(bs, p + 16, p + 24), order),
      size       |-> FromBytes(Slice(bs, p + 24, p + 32), order),
      flag       |-> FromBytes(Slice(bs, p + 32, p + 40), order),
      dummy_2    |-> FromBytes(Slice(bs, p + 40, p + 44), order),
      dummy_3    |-> FromBytes(Slice(bs, p + 44, p + 48), order) ]

\* Line 180: curr_pos = curr_pos + 48.
NextDescriptorShort(p) == p + DescriptorSize - 8

NextDescriptor(p) == p + DescriptorSize

ResolveContentsBySize(bs, d) ==
    IF d.flag = 1
    THEN Inflate(Slice(bs, d.offset, d.offset + d.zsize))
    ELSE Ok(Slice(bs, d.offset, d.offset + d.size))

\* "Handle the flag": the contents of one entry, or the zlib error raised.
ResolveContents(bs, d) ==
    IF d.flag = 0 \/ d.flag = RawSentinel
    THEN Ok(Slice(bs, d.offset, d.offset + d.size))
    ELSE IF d.flag = 1
    THEN Inflate(Slice(bs, d.offset, d.offset + d.zsize))
    ELSE Ok(Slice(bs, d.offset, d.offset + d.zsize))

----------------------------------------------------------------------------
(* Text.  A str is the sequence of its characters' codes.                  *)

Slash == 47

Dot == 46

\* s.split(sep): the pieces of s between the occurrences of sep.
RECURSIVE SplitFrom(_, _, _)
SplitFrom(s, sep, piece) ==
    IF s = <<>> THEN <<piece>>
    ELSE IF Head(s) = sep THEN <<piece>> \o SplitFrom(Tail(s), sep, <<>>)
    ELSE SplitFrom(Tail(s), sep, Append(piece, Head(s)))

Split(s, sep) == SplitFrom(s, sep, <<>>)

\* s.index(sep) raises ValueError when sep is not in s.
HasChar(s, sep) == \E k \in 1..Len(s) : s[k] = sep

\* pieces[k] (k from 0) of a list, or IndexError.
Item(pieces, k) ==
    IF k >= Len(pieces) THEN RaiseOf("IndexError") ELSE Ok(pieces[k + 1])

----------------------------------------------------------------------------
(* zipfile.  The library's archive format is kept as the "PK" signature    *)
(* followed, for each member in order, by the length of its name, its      *)
(* name, the length of its data and its data.  A member is [filename,      *)
(* data]; names may repeat, as zipfile allows.                             *)

PK == <<80, 75>>

RECURSIVE ZipMembersBytes(_)
ZipMembersBytes(members) ==
    IF members = <<>> THEN <<>>
    ELSE <<Len(Head(members).filename)>> \o Head(members).filename
         \o <<Len(Head(members).data)>> \o Head(members).data
         \o ZipMembersBytes(Tail(members))

\* ZipFile(new_contents, "w") with one writestr per member; getvalue().
ZipWrite(members) == PK \o ZipMembersBytes(members)

RECURSIVE ZipReadFrom(_, _, _)
ZipReadFrom(bs, pos, members) ==
    IF pos = Len(bs) THEN Ok(members)
    ELSE LET nlen == bs[pos + 1]
             dpos == pos + 1 + nlen
         IN  IF dpos + 1 > Len(bs) THEN RaiseOf("BadZipFile")
             ELSE IF dpos + 1 + bs[dpos + 1] > Len(bs) THEN RaiseOf("BadZipFile")
             ELSE ZipReadFrom(bs, dpos + 1 + bs[dpos + 1],
                     Append(members,
                            [filename |-> Slice(bs, pos + 1, dpos),
                             data     |-> Slice(bs, dpos + 1, dpos + 1 + bs[dpos + 1])]))

\* ZipFile(io.BytesIO(contents), "r"): infolist() with every member read.
ZipRead(bs) ==
    IF Slice(bs, 0, 2) # PK THEN RaiseOf("BadZipFile") ELSE ZipReadFrom(bs, 2, <<>>)

Member(filename, data) == [filename |-> filename, data |-> data]

\* The members a dict of name -> data is packed to, in insertion order.
DictMembers(d) == [k \in 1..Len(d) |-> Member(d[k][1], d[k][2])]

----------------------------------------------------------------------------
(* transforms: the steps of a pipeline.                                    *)

\* "split": ways contiguous pieces of len(chunk)//ways bytes.
SplitChunk(chunk, ways) ==
    LET chunk_size == Len(chunk) \div ways
    IN  [k \in 1..ways |-> Slice(chunk, (k - 1) * chunk_size, k * chunk_size)]

\* "split_size": consecutive slices of the given sizes, from start_offset.
RECURSIVE SplitSizeChunk(_, _, _)
SplitSizeChunk(chunk, sizes, start_offset) ==
    IF sizes = <<>> THEN <<>>
    ELSE <<Slice(chunk, start_offset, start_offset + Head(sizes))>>
         \o SplitSizeChunk(chunk, Tail(sizes), start_offset + Head(sizes))

\* "deinterleave": the loop over the interleave groups, from group g on.
RECURSIVE DeinterleaveGroups(_, _, _, _, _)
DeinterleaveGroups(chunk, num_ways, word_size, g, temp_chunks) ==
    LET interleave_group_length == num_ways * word_size
        num_interleave_groups   == Len(chunk) \div interleave_group_length
        offset                  == g * interleave_group_length
        interleave_group        == Slice(chunk, offset, offset + interleave_group_length)
    IN  IF g >= num_interleave_groups THEN temp_chunks
        ELSE DeinterleaveGroups(chunk, num_ways, word_size, g + 1,
                [j \in 1..num_ways |->
                    temp_chunks[j]
                    \o Slice(interleave_group, (j - 1) * word_size, j * word_size)])

DeinterleaveChunkSwapped(chunk, num_ways, word_size) ==
    DeinterleaveGroups(chunk, word_size, num_ways, 0, [j \in 1..word_size |-> <<>>])

DeinterleaveChunk(chunk, num_ways, word_size) ==
    DeinterleaveGroups(chunk, num_ways, word_size, 0, [j \in 1..num_ways |-> <<>>])

\* "truncate"
TruncateChunk(chunk, max_size) ==
    IF Len(chunk) > max_size THEN Slice(chunk, 0, max_size) ELSE chunk

\* "splice_out"
SpliceOutChunk(chunk, start, end) ==
    Slice(chunk, 0, start) \o Slice(chunk, end, Len(chunk))

\* s[start::2]
Stride(s, start) ==
    [k \in 1..((Len(s) - start + 1) \div 2) |-> s[start + 2 * k - 1]]

\* t[start::2] = src: an extended slice takes only as many items as it has.
StrideAssign(t, start, src) ==
    IF Len(Stride(t, start)) # Len(src) THEN RaiseOf("ValueError")
    ELSE Ok([k \in 1..Len(t) |->
                IF k > start /\ (k - 1 - start) % 2 = 0
                THEN src[((k - 1 - start) \div 2) + 1]
                ELSE t[k]])

EndianChunkHalf(chunk) ==
    StrideAssign([k \in 1..Len(chunk) |-> 0], 0, Stride(chunk, 1))

\* "endian": new_chunk[0::2] = chunk[1::2]; new_chunk[1::2] = chunk[0::2].
EndianChunk(chunk) ==
    LET first == StrideAssign([k \in 1..Len(chunk) |-> 0], 0, Stride(chunk, 1))
    IN  IF ~first.ok THEN first ELSE StrideAssign(first.val, 1, Stride(chunk, 0))

RECURSIVE EndianAll(_)
EndianAll(cs) ==
    IF cs = <<>> THEN Ok(<<>>)
    ELSE LET h == EndianChunk(Head(cs))
         IN  IF ~h.ok THEN h
             ELSE LET r == EndianAll(Tail(cs))
                  IN  IF ~r.ok THEN r ELSE Ok(<<h.val>> \o r.val)

\* One pass of the loop over part_metadata['transforms']: new_chunks, or the
\* exception raised.
ApplyStep(t, cs) ==
    CASE t.action = "split" ->
            Ok(Concat([c \in 1..Len(cs) |-> SplitChunk(cs[c], t.ways)]))
      [] t.action = "split_size" ->
            Ok(Concat([c \in 1..Len(cs) |-> SplitSizeChunk(cs[c], t.sizes, 0)]))
      [] t.action = "deinterleave" ->
            Ok(Concat([c \in 1..Len(cs) |->
                          DeinterleaveChunk(cs[c], t.ways, t.word_size_bytes)]))
      [] t.action = "truncate" ->
            Ok([c \in 1..Len(cs) |-> TruncateChunk(cs[c], t.max_length_bytes)])
      [] t.action = "splice_out" ->
            Ok([c \in 1..Len(cs) |-> SpliceOutChunk(cs[c], t.start, t.end)])
      [] t.action = "endian" -> EndianAll(cs)
      [] OTHER -> RaiseOf("TransformNYI")

\* Lines 30-38: orig_data[getType(file_entry)] = file_data for every member;
\* getType is filename.split('.')[1].
RECURSIVE LoadOrigData(_, _)
LoadOrigData(zip_entries, acc) ==
    IF zip_entries = <<>> THEN Ok(acc)
    ELSE LET type_name == Item(Split(Head(zip_entries).filename, Dot), 1)
         IN  IF ~type_name.ok THEN type_name
             ELSE LoadOrigData(Tail(zip_entries),
                               DictPut(acc, type_name.val, Head(zip_entries).data))

\* hashlib.sha1(chunk).hexdigest(), kept only as what the comparison needs:
\* a function of the chunk's bytes alone, with few digests, so that equal and
\* unequal digests both occur.
RECURSIVE WeightedSum(_, _)
WeightedSum(chunk, k) ==
    IF chunk = <<>> THEN 0 ELSE k * Head(chunk) + WeightedSum(Tail(chunk), k + 1)

Sha1(chunk) == (WeightedSum(chunk, 1) + Len(chunk)) % 3

\* file_names[i], part_file_entries[i] of the pairing loop (i from 0).
PairedFileFirst(part_file_entries, k) ==
    IF part_file_entries = <<>> THEN RaiseOf("IndexError") ELSE Ok(part_file_entries[1])

PairedFile(part_file_entries, k) ==
    IF k >= Len(part_file_entries) THEN RaiseOf("IndexError")
    ELSE Ok(part_file_entries[k + 1])

BadChecksumAlways(chunk, exp_hash) == TRUE

\* m.hexdigest() == exp_hash fails
BadChecksum(chunk, exp_hash) == Sha1(chunk) # exp_hash

----------------------------------------------------------------------------
(* rebuild_mame_subfolder_zip and split_1941                               *)

DotZip == <<46, 122, 105, 112>>          \* ".zip"

\* zip_entry.filename.split('/')[0]
GetPrefix(zip_entry) == Split(zip_entry.filename, Slash)[1]

\* zip_entry.filename.split('/')[1]
GetName(zip_entry) == Item(Split(zip_entry.filename, Slash), 1)

\* Lines 237-244: every member is written under getName(file_entry).
RECURSIVE RenameMembers(_)
RenameMembers(zip_entries) ==
    IF zip_entries = <<>> THEN Ok(<<>>)
    ELSE LET n == GetName(Head(zip_entries))
         IN  IF ~n.ok THEN n
             ELSE LET r == RenameMembers(Tail(zip_entries))
                  IN  IF ~r.ok THEN r
                      ELSE Ok(<<Member(n.val, Head(zip_entries).data)>> \o r.val)

\* Lines 224-249: the checks and the re-pack, old being the opened archive.
RebuildEntries(old) ==
    IF ~old.ok THEN old
    ELSE IF old.val = <<>> \/ ~HasChar(old.val[1].filename, Slash)
    THEN RaiseOf("NotMameSubfolder")
    ELSE IF \E k \in 1..Len(old.val) : GetPrefix(old.val[k]) # GetPrefix(old.val[1])
    THEN RaiseOf("NotMameSubfolder")
    ELSE LET new == RenameMembers(old.val)
         IN  IF ~new.ok THEN new
             ELSE Ok([filename |-> GetPrefix(old.val[1]) \o DotZip,
                      contents |-> ZipWrite(new.val)])

\* Lines 213-249: the archive is opened once, then checked and re-packed.
RebuildMameSubfolderZip(contents) ==
    CHOOSE ret_obj \in {RebuildEntries(old) : old \in {ZipRead(contents)}} : TRUE

Name1941 == <<49, 57, 52, 49, 46, 122, 105, 112>>          \* "1941.zip"

Name1941j == <<49, 57, 52, 49, 106, 46, 122, 105, 112>>         \* "1941j.zip"

\* Lines 195-206: the loop of split_1941 from member k on; a member that
\* cannot be renamed becomes out_files['1941.zip'].
RECURSIVE Split1941From(_, _, _, _)
Split1941From(zip_entries, k, new_members, out_files) ==
    IF k > Len(zip_entries) THEN <<new_members, out_files>>
    ELSE LET n == IF HasChar(zip_entries[1].filename, Slash)
                  THEN GetName(zip_entries[k]) ELSE RaiseOf("ValueError")
         IN  IF n.ok
             THEN Split1941From(zip_entries, k + 1,
                                Append(new_members, Member(n.val, zip_entries[k].data)),
                                out_files)
             ELSE Split1941From(zip_entries, k + 1, new_members,
                                DictPut(out_files, Name1941, zip_entries[k].data))

\* Lines 187-210: the dict out_files, old being the opened archive.
Split1941Entries(old) ==
    IF ~old.ok THEN old
    ELSE LET r == Split1941From(old.val, 1, <<>>, <<>>)
         IN  Ok(DictPut(r[2], Name1941j, ZipWrite(r[1])))

\* Lines 184-210: the archive is opened once, then split.
Split1941(contents) ==
    CHOOSE out_files \in {Split1941Entries(old) : old \in {ZipRead(contents)}} : TRUE

----------------------------------------------------------------------------
(* main                                                                    *)

\* filename[-11:-4]
GetIdFromName(filename) ==
    Slice(filename, Max(0, Len(filename) - 11), Max(0, Len(filename) - 4))

\* bytes.decode("utf-8") of at most two bytes: the code points, or
\* UnicodeDecodeError.  A sequence of three or four bytes cannot be complete.
Utf8Decode(bs) ==
    IF bs = <<>> THEN Ok(<<>>)
    ELSE IF bs[1] < 128
    THEN IF Len(bs) = 1 THEN Ok(<<bs[1]>>)
         ELSE IF bs[2] < 128 THEN Ok(<<bs[1], bs[2]>>)
         ELSE RaiseOf("UnicodeDecodeError")
    ELSE IF bs[1] >= 194 /\ bs[1] <= 223 /\ Len(bs) = 2 /\ bs[2] >= 128 /\ bs[2] <= 191
    THEN Ok(<<(bs[1] - 192) * 64 + (bs[2] - 128)>>)
    ELSE RaiseOf("UnicodeDecodeError")

\* contents[0:2].decode("utf-8") == "PK"
IsZip(contents) ==
    LET text == Utf8Decode(Slice(contents, 0, 2))
    IN  IF ~text.ok THEN text ELSE Ok(text.val = PK)

\* Lines 269-273: "Remove non-zip files".
RECURSIVE FilterZips(_, _)
FilterZips(kpka_contents, acc) ==
    IF kpka_contents = <<>> THEN Ok(acc)
    ELSE LET z == IsZip(Head(kpka_contents)[2])
         IN  IF ~z.ok THEN z
             ELSE FilterZips(Tail(kpka_contents),
                             IF z.val THEN DictPut(acc, Head(kpka_contents)[1],
                                                   Head(kpka_contents)[2])
                             ELSE acc)

\* Lines 275-286: no override (the empty list), the one that matches, or
\* "Too many override matches!".
FindOverride(rom_metadata, offset) ==
    IF ~rom_metadata.has_overrides THEN Ok(<<>>)
    ELSE LET matches == SelectSeq(rom_metadata.overrides,
                                  LAMBDA item : item.kpka_offset = offset)
         IN  IF Len(matches) = 0 THEN Ok(<<>>)
             ELSE IF Len(matches) = 1 THEN Ok(<<matches[1]>>)
             ELSE RaiseOf("TooManyOverrides")

CatchesOnlyOSError(err) == err = "OSError"

\* Line 331: except Exception as e.
Catches(err) == TRUE

\* str(n) for n >= 0
RECURSIVE Decimal(_)
Decimal(n) == IF n < 10 THEN <<48 + n>> ELSE Append(Decimal(n \div 10), 48 + (n % 10))

BadPrefix == <<66, 65, 68, 95>>              \* "BAD_"

Underscore == <<95>>               \* "_"

NyiZip == <<95, 110, 121, 105, 46, 122, 105, 112>>    \* "_nyi.zip"

DemergeNyiZip == <<95, 100, 101, 109, 101, 114, 103, 101, 95, 110, 121, 105, 46, 122, 105, 112>>    \* "_demerge_nyi.zip"

OrigZip == <<95, 111, 114, 105, 103, 46, 122, 105, 112>>    \* "_orig.zip"

StrRename == <<114, 101, 110, 97, 109, 101>>       \* "rename"

StrSplit1941 == <<115, 112, 108, 105, 116, 95, 49, 57, 52, 49>>    \* "split_1941"

StrDemerge == <<100, 101, 109, 101, 114, 103, 101>>      \* "demerge"

StrTransforms == <<116, 114, 97, 110, 115, 102, 111, 114, 109, 115>>    \* "transforms"

\* Lines 291-323 without the transforms strategy: the files written for an
\* override, in order, or the exception raised.
StrategyFiles(override, file_id, offset, contents) ==
    IF ~override.has_strategy
    THEN Ok(<<<<BadPrefix \o file_id \o Underscore \o Decimal(offset) \o NyiZip, contents>>>>)
    ELSE IF override.strategy = StrRename
    THEN Ok(<<<<override.mame_name \o DotZip, contents>>>>)
    ELSE IF override.strategy = StrSplit1941
    THEN Split1941(contents)
    ELSE IF override.strategy = StrDemerge
    THEN Ok(<<<<BadPrefix \o file_id \o Underscore \o Decimal(offset) \o Underscore
                \o override.mame_name \o DemergeNyiZip, contents>>>>)
    ELSE Ok(<<<<BadPrefix \o file_id \o Underscore \o Decimal(offset) \o Underscore
                \o override.strategy \o NyiZip, contents>>>>)

\* open(os.path.join(out_path, filename), "wb").write(contents) for each.
RECURSIVE WriteAll(_, _)
WriteAll(dir, named) ==
    IF named = <<>> THEN dir
    ELSE WriteAll(DictPut(dir, Head(named)[1], Head(named)[2]), Tail(named))

----------------------------------------------------------------------------
(* When a component is not the one running, its variables rest here.       *)

IdleReader ==
    /\ bytes = <<>>
    /\ byteorder = "little"
    /\ declared = [n |-> 0, descs |-> <<>>, cut |-> 0]
    /\ ppc = "idle"
    /\ total_files = 0
    /\ x = 0
    /\ curr_pos = 0
    /\ files = <<>>
    /\ rlog = <<>>

IdleEngine ==
    /\ zin = <<>>
    /\ orig_data = <<>>
    /\ parts = <<>>
    /\ tpc = "idle"
    /\ exc = ""
    /\ pidx = 0
    /\ tidx = 0
    /\ chunks = <<>>
    /\ pair_i = 0
    /\ new_data = <<>>
    /\ out = <<>>
    /\ hist = <<>>
    /\ emitted = <<>>

IdleRebuild ==
    /\ rzip = <<>>
    /\ rpc = "idle"
    /\ rebuilt = Ok(<<>>)

IdleMain ==
    /\ in_files = <<>>
    /\ romlist = <<>>
    /\ mpc = "idle"
    /\ fidx = 0
    /\ id = <<>>
    /\ kpka_zips = <<>>
    /\ zidx = 0
    /\ written = <<>>
    /\ attempted = <<>>
    /\ handled = <<>>
    /\ errlog = <<>>

----------------------------------------------------------------------------
(* The containers the reader is run on.                                    *)

MaxEntries == 2

\* range(0, total_files) is followed for this many iterations at most.
MaxIterations == 3

RECURSIVE ToBytesLE(_, _)
ToBytesLE(v, w) == IF w = 0 THEN <<>> ELSE <<v % 256>> \o ToBytesLE(v \div 256, w - 1)

\* "HIHI", then the stored deflate stream of "AB", then "PK".
DataRegion == <<72, 73, 72, 73>> \o <<1, 2, 0, 253, 255, 65, 66>> \o <<80, 75>>

\* Offsets relative to the end of the descriptor table.
RelOffsets == {0, 4}

\* <<zsize, size>>
SizePairs == {<<7, 2>>, <<4, 9>>}

Flags == {0, 1, 2, 3, RawSentinel}

Cuts == {0, 9, 14}

MagicTags == {Magic, <<75, 80, 75, 66>>}

DescChoices(n) ==
    [ offset : {HeaderSize + DescriptorSize * n + r : r \in RelOffsets},
      sizes  : SizePairs,
      flag   : Flags ]

EncodeDescriptor(d) ==
    ToBytesLE(0, 4) \o ToBytesLE(0, 4) \o ToBytesLE(d.offset, 8)
    \o ToBytesLE(d.sizes[1], 8) \o ToBytesLE(d.sizes[2], 8) \o ToBytesLE(d.flag, 8)
    \o ToBytesLE(0, 4) \o ToBytesLE(0, 4)

RECURSIVE EncodeTable(_)
EncodeTable(ds) ==
    IF ds = <<>> THEN <<>> ELSE EncodeDescriptor(Head(ds)) \o EncodeTable(Tail(ds))

EncodeContainerData(tag, ds, data, cut) ==
    LET whole == tag \o ToBytesLE(1, 4) \o ToBytesLE(Len(ds), 4) \o ToBytesLE(0, 4)
                 \o EncodeTable(ds) \o data
    IN  SubSeq(whole, 1, Len(whole) - cut)

EncodeContainer(tag, ds, cut) == EncodeContainerData(tag, ds, DataRegion, cut)

InitReader ==
    /\ byteorder = "little"
    /\ \E n \in 0..MaxEntries :
         \E ds \in [1..n -> DescChoices(n)], tag \in MagicTags, cut \in Cuts :
            /\ declared = [n |-> n, descs |-> ds, cut |-> cut]
            /\ bytes = EncodeContainer(tag, ds, cut)
    /\ ppc = "start"
    /\ total_files = 0
    /\ x = 0
    /\ curr_pos = 0
    /\ files = <<>>
    /\ rlog = <<>>
    /\ IdleEngine
    /\ IdleRebuild
    /\ IdleMain

\* Lines 130-143: the magic check and the header.
ReadHeader ==
    /\ ppc = "start"
    /\ IF Slice(bytes, 0, 4) # Magic
       THEN /\ ppc' = "raised"
            /\ UNCHANGED <<total_files, curr_pos>>
       ELSE /\ ppc' = "loop"
            /\ total_files' = FromBytes(Slice(bytes, 8, 12), byteorder)
            /\ curr_pos' = HeaderSize
    /\ UNCHANGED <<bytes, byteorder, declared, x, files, rlog>>
    /\ UNCHANGED <<engineVars, rebuildVars, mainVars>>

\* Lines 144-180: one iteration of the loop over the descriptors.
ReadEntry ==
    /\ ppc = "loop"
    /\ x < total_files
    /\ x < MaxIterations
    /\ \E d \in {DecodeDescriptor(bytes, curr_pos, byteorder)} :
       \E r \in {ResolveContents(bytes, d)} :
          IF r.ok
          THEN /\ files' = DictPut(files, d.offset, r.val)
               /\ rlog' = Append(rlog, [offset |-> d.offset, zsize |-> d.zsize,
                                        size |-> d.size, flag |-> d.flag,
                                        contents |-> r.val])
               /\ curr_pos' = NextDescriptor(curr_pos)
               /\ x' = x + 1
               /\ UNCHANGED ppc
          ELSE /\ ppc' = "raised"
               /\ UNCHANGED <<files, rlog, curr_pos, x>>
    /\ UNCHANGED <<bytes, byteorder, declared, total_files>>
    /\ UNCHANGED <<engineVars, rebuildVars, mainVars>>

\* Line 182: return files.
ReadReturn ==
    /\ ppc = "loop"
    /\ x = total_files
    /\ ppc' = "returned"
    /\ UNCHANGED <<bytes, byteorder, declared, total_files, x, curr_pos, files, rlog>>
    /\ UNCHANGED <<engineVars, rebuildVars, mainVars>>

NextReader == ReadHeader \/ ReadEntry \/ ReadReturn

SpecReader == InitReader /\ [][NextReader]_vars

\* sys.byteorder of the host the program runs on.
ByteOrders == {"little", "big"}

Crcs == {0, 1, 5}

\* A descriptor whose name hash halves are l and u and whose other fields
\* are zero: an empty payload at offset 0.
HashedDescriptor(l, u) ==
    ToBytesLE(l, 4) \o ToBytesLE(u, 4) \o ToBytesLE(0, 8) \o ToBytesLE(0, 8)
    \o ToBytesLE(0, 8) \o ToBytesLE(0, 8) \o ToBytesLE(0, 4) \o ToBytesLE(0, 4)

\* The container of n such descriptors, without data.
HashedContainer(hs) ==
    Magic \o ToBytesLE(1, 4) \o ToBytesLE(Len(hs), 4) \o ToBytesLE(0, 4)
    \o Concat([k \in 1..Len(hs) |-> HashedDescriptor(hs[k][1], hs[k][2])])

\* parse_kpka_archive on a host of either byte order.
InitHost ==
    /\ byteorder \in ByteOrders
    /\ \E n \in 0..MaxEntries :
         \E hs \in [1..n -> Crcs \X Crcs] :
            /\ declared = [n |-> n,
                           descs |-> [k \in 1..n |-> [offset |-> 0, sizes |-> <<0, 0>>,
                                                      flag |-> 0]],
                           cut |-> 0]
            /\ bytes = HashedContainer(hs)
    /\ ppc = "start"
    /\ total_files = 0
    /\ x = 0
    /\ curr_pos = 0
    /\ files = <<>>
    /\ rlog = <<>>
    /\ IdleEngine
    /\ IdleRebuild
    /\ IdleMain

SpecHost == InitHost /\ [][NextReader]_vars

----------------------------------------------------------------------------
(* The rules and payloads the engine is run on.                            *)

MaxLen == 6

MaxSteps == 2

Step(action) ==
    [action |-> action, ways |-> 0, word_size_bytes |-> 0, sizes |-> <<>>,
     max_length_bytes |-> 0, start |-> 0, end |-> 0]

StepChoices ==
    {[Step("split") EXCEPT !.ways = 2],
     [Step("split_size") EXCEPT !.sizes = <<1, 2>>],
     [Step("truncate") EXCEPT !.max_length_bytes = 3],
     [Step("splice_out") EXCEPT !.start = 1, !.end = 3],
     Step("endian"),
     Step("rotate")}
    \cup {[Step("deinterleave") EXCEPT !.ways = w[1], !.word_size_bytes = w[2]] :
            w \in {<<1, 2>>, <<2, 1>>, <<2, 2>>}}

File(name, sha1) == [name |-> name, sha1 |-> sha1]

\* Output names "a", "b", "c", "d".
FileLists ==
    {<<>>,
     <<File(<<97>>, 0)>>,
     <<File(<<97>>, 1), File(<<98>>, 0)>>,
     <<File(<<97>>, 0), File(<<97>>, 1)>>,
     <<File(<<97>>, 1), File(<<98>>, 1), File(<<99>>, 0)>>,
     <<File(<<97>>, 0), File(<<98>>, 2), File(<<99>>, 1), File(<<100>>, 0)>>}

\* Part-types "m" and "g", from the members "r.m" and "r.g".
TypeM == <<109>>

TypeG == <<103>>

MemberM(data) == Member(<<114, 46, 109>>, data)

MemberG(data) == Member(<<114, 46, 103>>, data)

\* The bytes 1, 2, ..., n.
Payload(n) == [k \in 1..n |-> k]

\* A second part-type of the rule: none, one whose member is in the archive,
\* one whose member is not.
SecondParts == {"none", "present", "absent"}

GfxPart == [type |-> TypeG, files |-> <<File(<<97>>, 0)>>, transforms |-> <<>>]

InitEngine ==
    /\ IdleReader
    /\ IdleRebuild
    /\ IdleMain
    /\ \E n \in 0..MaxLen, k \in 0..MaxSteps, fs \in FileLists, second \in SecondParts :
         \E ts \in [1..k -> StepChoices] :
            /\ zin = ZipWrite(<<MemberM(Payload(n))>>
                              \o (IF second = "present" THEN <<MemberG(<<9, 9>>)>>
                                  ELSE <<>>))
            /\ parts = <<[type |-> TypeM, files |-> fs, transforms |-> ts]>>
                       \o (IF second = "none" THEN <<>> ELSE <<GfxPart>>)
    /\ orig_data = <<>>
    /\ tpc = "load"
    /\ exc = ""
    /\ pidx = 0
    /\ tidx = 0
    /\ chunks = <<>>
    /\ pair_i = 0
    /\ new_data = <<>>
    /\ out = <<>>
    /\ hist = <<>>
    /\ emitted = <<>>

\* Lines 26-38: the archive is opened and its members are read into orig_data.
EngineLoad ==
    /\ tpc = "load"
    /\ LET r == ZipRead(zin)
           d == IF r.ok THEN LoadOrigData(r.val, <<>>) ELSE r
       IN  IF d.ok
           THEN /\ orig_data' = d.val
                /\ tpc' = "part"
                /\ UNCHANGED exc
           ELSE /\ tpc' = "raised"
                /\ exc' = d.err
                /\ UNCHANGED orig_data
    /\ UNCHANGED <<zin, parts, pidx, tidx, chunks, pair_i, new_data, out, hist, emitted>>
    /\ UNCHANGED <<readerVars, rebuildVars, mainVars>>

\* Lines 42-46: the next part-type; chunks = [orig_data[part_type]].
EnginePart ==
    /\ tpc = "part"
    /\ pidx < Len(parts)
    /\ IF DictHas(orig_data, parts[pidx + 1].type)
       THEN /\ chunks' = <<DictGet(orig_data, parts[pidx + 1].type)>>
            /\ hist' = <<chunks'>>
            /\ tpc' = "step"
            /\ UNCHANGED exc
       ELSE /\ tpc' = "raised"
            /\ exc' = "KeyError"
            /\ UNCHANGED <<chunks, hist>>
    /\ tidx' = 0
    /\ emitted' = <<>>
    /\ UNCHANGED <<zin, orig_data, parts, pidx, pair_i, new_data, out>>
    /\ UNCHANGED <<readerVars, rebuildVars, mainVars>>

\* Lines 47-107: one transform of the current part's pipeline.
EngineStep ==
    /\ tpc = "step"
    /\ tidx < Len(parts[pidx + 1].transforms)
    /\ LET r == ApplyStep(parts[pidx + 1].transforms[tidx + 1], chunks)
       IN  IF r.ok
           THEN /\ chunks' = r.val
                /\ hist' = Append(hist, r.val)
                /\ tidx' = tidx + 1
                /\ UNCHANGED <<tpc, exc>>
           ELSE /\ tpc' = "raised"
                /\ exc' = r.err
                /\ UNCHANGED <<chunks, hist, tidx>>
    /\ UNCHANGED <<zin, orig_data, parts, pidx, pair_i, new_data, out, emitted>>
    /\ UNCHANGED <<readerVars, rebuildVars, mainVars>>

\* Line 109: the pipeline is finished, the pairing loop starts.
EnginePipelineDone ==
    /\ tpc = "step"
    /\ tidx = Len(parts[pidx + 1].transforms)
    /\ tpc' = "pair"
    /\ pair_i' = 0
    /\ UNCHANGED <<zin, orig_data, parts, exc, pidx, tidx, chunks, new_data, out, hist, emitted>>
    /\ UNCHANGED <<readerVars, rebuildVars, mainVars>>

\* Lines 109-119: one iteration of the pairing loop.
EnginePair ==
    /\ tpc = "pair"
    /\ pair_i < Len(chunks)
    /\ LET chunk == chunks[pair_i + 1]
           f     == PairedFile(parts[pidx + 1].files, pair_i)
       IN  IF f.ok
           THEN /\ new_data' = DictPut(new_data, f.val.name, chunk)
                /\ emitted' = Append(emitted, <<f.val.name, chunk>>)
                /\ out' = IF BadChecksum(chunk, f.val.sha1)
                          THEN Append(out, [name |-> f.val.name, got |-> Sha1(chunk),
                                            length |-> Len(chunk), expected |-> f.val.sha1])
                          ELSE out
                /\ pair_i' = pair_i + 1
                /\ UNCHANGED <<tpc, exc>>
           ELSE /\ tpc' = "raised"
                /\ exc' = f.err
                /\ UNCHANGED <<new_data, emitted, out, pair_i>>
    /\ UNCHANGED <<zin, orig_data, parts, pidx, tidx, chunks, hist>>
    /\ UNCHANGED <<readerVars, rebuildVars, mainVars>>

\* The pairing loop is finished: on to the next part-type.
EnginePairDone ==
    /\ tpc = "pair"
    /\ pair_i = Len(chunks)
    /\ tpc' = "part"
    /\ pidx' = pidx + 1
    /\ UNCHANGED <<zin, orig_data, parts, exc, tidx, chunks, pair_i, new_data, out, hist, emitted>>
    /\ UNCHANGED <<readerVars, rebuildVars, mainVars>>

\* Lines 121-127: every part-type is done; new_data is packed and returned.
EngineReturn ==
    /\ tpc = "part"
    /\ pidx = Len(parts)
    /\ tpc' = "returned"
    /\ UNCHANGED <<zin, orig_data, parts, exc, pidx, tidx, chunks, pair_i, new_data, out, hist, emitted>>
    /\ UNCHANGED <<readerVars, rebuildVars, mainVars>>

NextEngine ==
    EngineLoad \/ EnginePart \/ EngineStep \/ EnginePipelineDone \/ EnginePair \/ EnginePairDone
    \/ EngineReturn

SpecEngine == InitEngine /\ [][NextEngine]_vars

----------------------------------------------------------------------------
(* The files and rules main is run on.                                     *)

MaxFiles == 2

MaxZips == 2

MaxMembers == 2

\* Members "f/a", "f/b" under one prefix.
ZGood == ZipWrite(<<Member(<<102, 47, 97>>, <<1>>), Member(<<102, 47, 98>>, <<2>>)>>)

\* Members "f/a", "g/b" under two prefixes.
ZMixed == ZipWrite(<<Member(<<102, 47, 97>>, <<1>>), Member(<<103, 47, 98>>, <<2>>)>>)

\* The member "r.m" with four bytes.
ZRom == ZipWrite(<<MemberM(Payload(4))>>)

\* "HI": not an archive.
RawHI == <<72, 73>>

\* Two bytes that are not UTF-8 text.
RawBinary == <<255, 254>>

Payloads == {ZGood, ZMixed, ZRom, RawHI, RawBinary}

PayloadLists == UNION {[1..k -> Payloads] : k \in 0..MaxZips}

\* The offset of the k-th of the payloads ps, laid out after the table.
RECURSIVE PayloadOffset(_, _)
PayloadOffset(ps, k) ==
    IF k = 1 THEN HeaderSize + DescriptorSize * Len(ps)
    ELSE PayloadOffset(ps, k - 1) + Len(ps[k - 1])

\* The container that holds the payloads ps, uncompressed.
ContainerOf(tag, ps) ==
    EncodeContainerData(tag,
        [k \in 1..Len(ps) |-> [offset |-> PayloadOffset(ps, k),
                               sizes  |-> <<Len(ps[k]), Len(ps[k])>>,
                               flag   |-> 0]],
        Concat(ps), 0)

Override(offset, has_strategy, strategy, transforms) ==
    [kpka_offset |-> offset, has_strategy |-> has_strategy, strategy |-> strategy,
     mame_name |-> <<115, 102, 50>>,
     parts |-> <<[type |-> TypeM,
                  files |-> <<File(<<97>>, Sha1(<<1, 2>>)), File(<<98>>, 0)>>,
                  transforms |-> transforms]>>]

RuleKinds ==
    {"absent", "nokey", "nostrategy", "rename", "split_1941", "demerge", "transforms",
     "badstep", "other", "conflict1", "conflict2"}

\* The overrides of a rule kind, for a container whose entries start at
\* the offsets first and second.
OverridesOf(rule, first, second) ==
    CASE rule = "nostrategy" -> <<Override(first, FALSE, <<>>, <<>>)>>
      [] rule = "rename"     -> <<Override(first, TRUE, StrRename, <<>>)>>
      [] rule = "split_1941" -> <<Override(first, TRUE, StrSplit1941, <<>>)>>
      [] rule = "demerge"    -> <<Override(first, TRUE, StrDemerge, <<>>)>>
      [] rule = "transforms" ->
            <<Override(first, TRUE, StrTransforms, <<[Step("split") EXCEPT !.ways = 2]>>)>>
      [] rule = "badstep"    ->
            <<Override(first, TRUE, StrTransforms, <<Step("rotate")>>)>>
      [] rule = "other"      -> <<Override(first, TRUE, <<109, 101, 114, 103, 101>>, <<>>)>>
      [] rule = "conflict1"  -> <<Override(first, TRUE, StrRename, <<>>),
                                  Override(first, TRUE, StrDemerge, <<>>)>>
      [] rule = "conflict2"  -> <<Override(second, TRUE, StrRename, <<>>),
                                  Override(second, TRUE, StrDemerge, <<>>)>>
      [] OTHER -> <<>>

\* A .pak file to be: its payloads and its rule.
FilePlan(ps, rule, readable, tag) ==
    [payloads |-> ps, rule |-> rule, readable |-> readable, tag |-> tag]

SimplePlan == FilePlan(<<ZGood>>, "nokey", TRUE, Magic)

\* The payload lists every rule kind is tried on.
RuleLists ==
    {<<>>, <<ZGood>>, <<ZRom>>, <<ZGood, ZGood>>, <<ZGood, ZRom>>, <<ZRom, ZGood>>,
     <<ZRom, ZRom>>, <<RawHI, ZGood>>}

\* Any payload list without overrides, the lists above under every rule
\* kind, an unreadable file and a file with a wrong magic.
RichPlans ==
    {FilePlan(ps, "nokey", TRUE, Magic) : ps \in PayloadLists}
    \cup {FilePlan(ps, rule, TRUE, Magic) : ps \in RuleLists, rule \in RuleKinds}
    \cup {FilePlan(<<ZGood>>, "nokey", FALSE, Magic),
          FilePlan(<<ZGood>>, "nokey", TRUE, <<75, 80, 75, 66>>)}

\* File lists with at most one file that is not the simple one.
PlanLists ==
    UNION {{[k \in 1..n |-> IF k = at THEN rich ELSE SimplePlan] :
                at \in 1..n, rich \in RichPlans} : n \in 0..MaxFiles}
    \cup {<<>>}

\* "p/000000k.pak"
FileId(k) == <<48, 48, 48, 48, 48, 48, 48 + k>>

FileName(k) == <<112, 47>> \o FileId(k) \o <<46, 112, 97, 107>>

FilesOf(plans) ==
    [k \in 1..Len(plans) |->
        [name     |-> FileName(k),
         content  |-> ContainerOf(plans[k].tag, plans[k].payloads),
         readable |-> plans[k].readable]]

MetadataOf(plan) ==
    [name          |-> <<103, 97, 109, 101>>,
     has_overrides |-> plan.rule # "nokey",
     overrides     |-> OverridesOf(plan.rule,
                           HeaderSize + DescriptorSize * Len(plan.payloads),
                           IF plan.payloads = <<>> THEN 0
                           ELSE PayloadOffset(plan.payloads, 1) + Len(plan.payloads[1]))]

RECURSIVE RomlistOf(_, _)
RomlistOf(plans, k) ==
    IF k > Len(plans) THEN <<>>
    ELSE (IF plans[k].rule = "absent" THEN <<>> ELSE <<<<FileId(k), MetadataOf(plans[k])>>>>)
         \o RomlistOf(plans, k + 1)

InitMain(plans) ==
    /\ in_files = FilesOf(plans)
    /\ romlist = RomlistOf(plans, 1)
    /\ mpc = "loop"
    /\ fidx = 0
    /\ id = <<>>
    /\ kpka_zips = <<>>
    /\ zidx = 0
    /\ written = <<>>
    /\ attempted = <<>>
    /\ handled = <<>>
    /\ errlog = <<>>
    /\ IdleReader
    /\ IdleEngine
    /\ IdleRebuild

Init == \E plans \in PlanLists : InitMain(plans)

\* Member names "f/a", "f/b", "g/a", "f", "f/a/b".
MemberNames == {<<102, 47, 97>>, <<102, 47, 98>>, <<103, 47, 97>>, <<102>>, <<102, 47, 97, 47, 98>>}

MemberLists ==
    UNION {[1..k -> {Member(n, d) : n \in MemberNames, d \in {<<1>>, <<2>>}}] :
              k \in 0..MaxMembers}

\* The member "h/a".
ZNext == ZipWrite(<<Member(<<104, 47, 97>>, <<3>>)>>)

\* One file without overrides; its first entry is any archive, its second ZNext.
InitRebuild ==
    \E ms \in MemberLists :
        InitMain(<<FilePlan(<<ZipWrite(ms), ZNext>>, "nokey", TRUE, Magic)>>)

----------------------------------------------------------------------------
(* main, step by step.                                                     *)

\* Lines 331-334: the handler of the try around one container.
Handler(err, entry) ==
    /\ errlog' = Append(errlog, [file |-> fidx + 1, entry |-> entry, err |-> err])
    /\ IF Catches(err)
       THEN /\ mpc' = "loop"
            /\ fidx' = fidx + 1
       ELSE /\ mpc' = "crashed"
            /\ UNCHANGED fidx

\* Lines 257-263 and 335-336: the next file and its id.
MainNextFile ==
    /\ mpc = "loop"
    /\ fidx < Len(in_files)
    /\ id' = GetIdFromName(in_files[fidx + 1].name)
    /\ attempted' = Append(attempted, fidx + 1)
    /\ IF DictHas(romlist, id')
       THEN /\ mpc' = "open"
            /\ UNCHANGED fidx
       ELSE /\ fidx' = fidx + 1
            /\ UNCHANGED mpc
    /\ UNCHANGED <<in_files, romlist, kpka_zips, zidx, written, handled, errlog>>
    /\ UNCHANGED <<readerVars, engineVars, rebuildVars>>

\* Lines 265-267: the file is read and parse_kpka_archive is called.
MainOpen ==
    /\ mpc = "open"
    /\ IF in_files[fidx + 1].readable
       THEN /\ bytes' = in_files[fidx + 1].content
            /\ ppc' = "start"
            /\ total_files' = 0
            /\ x' = 0
            /\ curr_pos' = 0
            /\ files' = <<>>
            /\ rlog' = <<>>
            /\ mpc' = "parse"
            /\ UNCHANGED <<byteorder, declared, fidx, errlog>>
       ELSE /\ Handler("OSError", 0)
            /\ UNCHANGED readerVars
    /\ UNCHANGED <<in_files, romlist, id, kpka_zips, zidx, written, attempted, handled>>
    /\ UNCHANGED <<engineVars, rebuildVars>>

\* Lines 267-273: parse_kpka_archive is back; the non-zip entries are removed.
MainParsed ==
    /\ mpc = "parse"
    /\ ppc \in {"returned", "raised"}
    /\ ppc' = "idle"
    /\ LET z == IF ppc = "raised" THEN RaiseOf("ParseError") ELSE FilterZips(files, <<>>)
       IN  IF z.ok
           THEN /\ kpka_zips' = z.val
                /\ zidx' = 0
                /\ handled' = <<>>
                /\ mpc' = "entries"
                /\ UNCHANGED <<fidx, errlog>>
           ELSE /\ Handler(z.err, 0)
                /\ UNCHANGED <<kpka_zips, zidx, handled>>
    /\ UNCHANGED <<bytes, byteorder, declared, total_files, x, curr_pos, files, rlog>>
    /\ UNCHANGED <<in_files, romlist, id, written, attempted>>
    /\ UNCHANGED <<engineVars, rebuildVars>>

EntryOffset == kpka_zips[zidx + 1][1]

EntryContents == kpka_zips[zidx + 1][2]

EntryOverride == FindOverride(DictGet(romlist, id), EntryOffset)

\* Line 290: find_override raises.
MainEntryConflict ==
    /\ mpc = "entries"
    /\ zidx < Len(kpka_zips)
    /\ ~EntryOverride.ok
    /\ Handler(EntryOverride.err, zidx + 1)
    /\ UNCHANGED <<in_files, romlist, id, kpka_zips, zidx, written, attempted, handled>>
    /\ UNCHANGED <<readerVars, engineVars, rebuildVars>>

\* Lines 291-312 and 319-323: an override whose strategy is not transforms.
MainEntryStrategy ==
    /\ mpc = "entries"
    /\ zidx < Len(kpka_zips)
    /\ EntryOverride.ok
    /\ EntryOverride.val # <<>>
    /\ LET override == EntryOverride.val[1]
       IN  /\ ~(override.has_strategy /\ override.strategy = StrTransforms)
           /\ LET r == StrategyFiles(override, id, EntryOffset, EntryContents)
              IN  IF r.ok
                  THEN /\ written' = WriteAll(written, r.val)
                       /\ handled' = Append(handled, zidx + 1)
                       /\ zidx' = zidx + 1
                       /\ UNCHANGED <<mpc, fidx, errlog>>
                  ELSE /\ Handler(r.err, zidx + 1)
                       /\ UNCHANGED <<written, handled, zidx>>
    /\ UNCHANGED <<in_files, romlist, id, kpka_zips, attempted>>
    /\ UNCHANGED <<readerVars, engineVars, rebuildVars>>

\* Lines 313-314: transforms(contents, override) is called.
MainEntryTransforms ==
    /\ mpc = "entries"
    /\ zidx < Len(kpka_zips)
    /\ EntryOverride.ok
    /\ EntryOverride.val # <<>>
    /\ EntryOverride.val[1].has_strategy
    /\ EntryOverride.val[1].strategy = StrTransforms
    /\ zin' = EntryContents
    /\ parts' = EntryOverride.val[1].parts
    /\ orig_data' = <<>>
    /\ tpc' = "load"
    /\ exc' = ""
    /\ pidx' = 0
    /\ tidx' = 0
    /\ chunks' = <<>>
    /\ pair_i' = 0
    /\ new_data' = <<>>
    /\ hist' = <<>>
    /\ emitted' = <<>>
    /\ mpc' = "transforms"
    /\ UNCHANGED out
    /\ UNCHANGED <<in_files, romlist, fidx, id, kpka_zips, zidx, written, attempted,
                   handled, errlog>>
    /\ UNCHANGED <<readerVars, rebuildVars>>

\* Lines 314-318: transforms is back; the new and the original archive are written.
MainTransformsReturn ==
    /\ mpc = "transforms"
    /\ tpc \in {"returned", "raised"}
    /\ tpc' = "idle"
    /\ IF tpc = "returned"
       THEN /\ written' = WriteAll(written,
                  <<<<EntryOverride.val[1].mame_name \o DotZip,
                      ZipWrite(DictMembers(new_data))>>,
                    <<EntryOverride.val[1].mame_name \o OrigZip, EntryContents>>>>)
            /\ handled' = Append(handled, zidx + 1)
            /\ zidx' = zidx + 1
            /\ mpc' = "entries"
            /\ UNCHANGED <<fidx, errlog>>
       ELSE /\ Handler(exc, zidx + 1)
            /\ UNCHANGED <<written, handled, zidx>>
    /\ UNCHANGED <<zin, orig_data, parts, exc, pidx, tidx, chunks, pair_i, new_data, out,
                   hist, emitted>>
    /\ UNCHANGED <<in_files, romlist, id, kpka_zips, attempted>>
    /\ UNCHANGED <<readerVars, rebuildVars>>

\* Lines 324-326: no override; rebuild_mame_subfolder_zip(contents) is called.
MainEntryDefault ==
    /\ mpc = "entries"
    /\ zidx < Len(kpka_zips)
    /\ EntryOverride.ok
    /\ EntryOverride.val = <<>>
    /\ rzip' = EntryContents
    /\ rpc' = "call"
    /\ mpc' = "rebuild"
    /\ UNCHANGED rebuilt
    /\ UNCHANGED <<in_files, romlist, fidx, id, kpka_zips, zidx, written, attempted,
                   handled, errlog>>
    /\ UNCHANGED <<readerVars, engineVars>>

\* Lines 213-249: rebuild_mame_subfolder_zip runs.
RebuildRun ==
    /\ rpc = "call"
    /\ rebuilt' = RebuildMameSubfolderZip(rzip)
    /\ rpc' = IF rebuilt'.ok THEN "returned" ELSE "raised"
    /\ UNCHANGED rzip
    /\ UNCHANGED <<readerVars, engineVars, mainVars>>

\* Lines 326-330: the rebuilt archive is written, or the exception printed.
MainRebuildReturn ==
    /\ mpc = "rebuild"
    /\ rpc \in {"returned", "raised"}
    /\ rpc' = "idle"
    /\ written' = IF rebuilt.ok
                  THEN DictPut(written, rebuilt.val.filename, rebuilt.val.contents)
                  ELSE written
    /\ handled' = Append(handled, zidx + 1)
    /\ zidx' = zidx + 1
    /\ mpc' = "entries"
    /\ UNCHANGED <<rzip, rebuilt>>
    /\ UNCHANGED <<in_files, romlist, fidx, id, kpka_zips, attempted, errlog>>
    /\ UNCHANGED <<readerVars, engineVars>>

\* The loop over kpka_zips is finished: on to the next file.
MainEntriesDone ==
    /\ mpc = "entries"
    /\ zidx = Len(kpka_zips)
    /\ mpc' = "loop"
    /\ fidx' = fidx + 1
    /\ UNCHANGED <<in_files, romlist, id, kpka_zips, zidx, written, attempted, handled,
                   errlog>>
    /\ UNCHANGED <<readerVars, engineVars, rebuildVars>>

\* Lines 338-348: the file list is exhausted; "Processing complete."
MainFinish ==
    /\ mpc = "loop"
    /\ fidx = Len(in_files)
    /\ mpc' = "done"
    /\ UNCHANGED <<in_files, romlist, fidx, id, kpka_zips, zidx, written, attempted,
                   handled, errlog>>
    /\ UNCHANGED <<readerVars, engineVars, rebuildVars>>

NextRebuild ==
    \/ MainNextFile \/ MainOpen \/ MainParsed \/ MainEntryDefault \/ MainRebuildReturn
    \/ MainEntriesDone \/ MainFinish
    \/ ReadHeader \/ ReadEntry \/ ReadReturn
    \/ RebuildRun

Next ==
    \/ MainNextFile \/ MainOpen \/ MainParsed
    \/ MainEntryConflict \/ MainEntryStrategy \/ MainEntryTransforms \/ MainTransformsReturn
    \/ MainEntryDefault \/ MainRebuildReturn
    \/ MainEntriesDone \/ MainFinish
    \/ ReadHeader \/ ReadEntry \/ ReadReturn
    \/ EngineLoad \/ EnginePart \/ EngineStep \/ EnginePipelineDone \/ EnginePair
    \/ EnginePairDone \/ EngineReturn
    \/ RebuildRun

Spec == Init /\ [][Next]_vars

\* main is one sequential program: while a step is possible, one is taken.
LiveSpec == Spec /\ WF_vars(Next)

SpecRebuild == InitRebuild /\ [][NextRebuild]_vars

----------------------------------------------------------------------------
(* Properties of the reader.                                               *)

MagicOk == Slice(bytes, 0, 4) = Magic

DistinctOffsets ==
    \A i, j \in 1..declared.n :
        declared.descs[i].offset = declared.descs[j].offset => i = j

\* The i-th entry returned is the i-th descriptor's: its offset, its payload.
InDescriptorOrder ==
    /\ Len(files) = declared.n
    /\ \A i \in 1..declared.n :
          /\ files[i][1] = declared.descs[i].offset
          /\ files[i][2] = rlog[i].contents

\* C3 as stated: for every container with the right magic and entry_count = n,
\* parse returns exactly n entries, the i-th one carrying the i-th
\* descriptor's offset and payload.
C3_EveryContainerYieldsAllEntries ==
    (ppc = "returned" /\ MagicOk) => InDescriptorOrder

\* C3 amended: when the descriptors' offsets are pairwise distinct and parse
\* returns, it returns exactly n entries in descriptor order, each with its
\* descriptor's offset and payload; with the right magic parse fails only
\* while inflating a flag-1 descriptor; descriptors that share an offset
\* leave one entry, holding the payload of the last of them.
C3_DistinctOffsetsYieldAllEntries ==
    /\ (ppc = "returned" /\ DistinctOffsets) => InDescriptorOrder
    /\ (ppc = "raised" /\ MagicOk) =>
          (x < declared.n /\ declared.descs[x + 1].flag = 1)
    /\ ppc = "returned" =>
          /\ Len(rlog) = declared.n
          /\ \A i \in 1..Len(rlog) :
                (\A j \in (i + 1)..Len(rlog) : rlog[j].offset # rlog[i].offset)
                    => /\ DictHas(files, rlog[i].offset)
                       /\ DictGet(files, rlog[i].offset) = rlog[i].contents
          /\ \A k \in 1..Len(files) : \E i \in 1..Len(rlog) : rlog[i].offset = files[k][1]
          /\ \A k, m \in 1..Len(files) : files[k][1] = files[m][1] => k = m

C3_Witness ==
    /\ ppc = "returned"
    /\ declared.n = MaxEntries
    /\ DistinctOffsets
    /\ Len(files) = MaxEntries
    /\ \E i \in 1..declared.n : declared.descs[i].flag = 1

\* The part of the container a descriptor's range [off, off + n) covers.
IsRange(c, off, n) ==
    /\ Len(c) = Max(0, Min(Len(bytes), off + n) - Min(Len(bytes), off))
    /\ \A k \in 1..Len(c) : c[k] = bytes[off + k]

\* C4: the payload of every descriptor is selected by its flag: flags 0 and
\* 1024 give the bytes [offset, offset+size); flag 1 gives the raw inflate of
\* the bytes [offset, offset+zsize); every other flag gives the bytes
\* [offset, offset+zsize) unmodified; the container's bytes stay as given.
C4_PayloadSelectedByFlag ==
    /\ \A i \in 1..Len(rlog) :
          LET d == declared.descs[i]
              c == rlog[i].contents
          IN  CASE d.flag \in {0, RawSentinel} -> IsRange(c, d.offset, d.sizes[2])
                [] d.flag = 1 ->
                      \E z \in {Slice(bytes, d.offset, d.offset + d.sizes[1])} :
                          /\ IsRange(z, d.offset, d.sizes[1])
                          /\ Inflate(z) = Ok(c)
                [] OTHER -> IsRange(c, d.offset, d.sizes[1])
    /\ \E tag \in MagicTags : bytes = EncodeContainer(tag, declared.descs, declared.cut)

C4_Witness ==
    /\ ppc = "returned"
    /\ Len(rlog) = MaxEntries
    /\ rlog[1].flag = 1
    /\ rlog[1].contents = <<65, 66>>
    /\ rlog[2].flag = RawSentinel
    /\ Len(rlog[2].contents) = 9

\* Some descriptor, or the descriptor table, runs past the end of the container.
Truncated ==
    \/ declared.n >= 1 /\ HeaderSize + DescriptorSize * declared.n > Len(bytes)
    \/ \E i \in 1..declared.n :
          declared.descs[i].offset
            + Max(declared.descs[i].sizes[1], declared.descs[i].sizes[2]) > Len(bytes)

\* C10: parse never returns entries for a truncated container.
C10_TruncatedContainerFails ==
    ppc = "returned" => ~Truncated

\* No flag-1 range of these containers starts a Huffman-coded block.
NoHuffman ==
    \A i \in 1..declared.n :
        ~HuffmanAt(Slice(bytes, declared.descs[i].offset,
                         declared.descs[i].offset + declared.descs[i].sizes[1]), 0)

----------------------------------------------------------------------------
(* Properties of the transform engine.                                     *)

\* The pairing loop of part-type number pidx has run to its end.
PairingDone == tpc \in {"part", "returned"} /\ pidx >= 1

\* The part-type whose pipeline hist records.
HistPart ==
    IF tpc \in {"step", "pair"} \/ (tpc = "raised" /\ exc # "KeyError")
    THEN pidx + 1 ELSE pidx

\* C5 as stated: for every part-type whose pipeline completes, exactly one
\* chunk per declared file descriptor is emitted, the i-th chunk under the
\* i-th name, whatever the final chunk count.
C5_OneChunkPerDescriptor ==
    /\ PairingDone =>
          /\ Len(emitted) = Len(parts[pidx].files)
          /\ \A k \in 1..Len(emitted) :
                emitted[k] = <<parts[pidx].files[k].name, chunks[k]>>
    /\ tpc = "raised" => exc # "IndexError"

\* C5 amended: a part-type whose pipeline ends with as many chunks as it has
\* descriptors emits exactly one chunk per descriptor, the i-th chunk under
\* the i-th name, and new_data holds under each name the last chunk emitted
\* under it.  With fewer chunks than descriptors only the first len(chunks)
\* descriptors get a chunk; with more, the pairing loop raises IndexError at
\* the first chunk without a descriptor.
C5_ChunksPairedPositionally ==
    /\ PairingDone =>
          LET fs == parts[pidx].files
          IN  /\ Len(chunks) <= Len(fs)
              /\ Len(emitted) = Len(chunks)
              /\ Len(chunks) = Len(fs) => Len(emitted) = Len(fs)
              /\ \A k \in 1..Len(chunks) :
                    /\ emitted[k] = <<fs[k].name, chunks[k]>>
                    /\ (\A j \in (k + 1)..Len(chunks) : fs[j].name # fs[k].name)
                          => /\ DictHas(new_data, fs[k].name)
                             /\ DictGet(new_data, fs[k].name) = chunks[k]
    /\ (tpc = "raised" /\ exc = "IndexError") =>
          /\ Len(chunks) > Len(parts[pidx + 1].files)
          /\ pair_i = Len(parts[pidx + 1].files)

C5_Witness ==
    /\ PairingDone
    /\ pidx = 1
    /\ Len(parts[1].transforms) = MaxSteps
    /\ Len(chunks) = 4
    /\ Len(parts[1].files) = 4
    /\ Len(new_data) = 4

\* C6: hash verification is advisory: every chunk the pairing loop pairs
\* with a descriptor is stored under the descriptor's name, unchanged,
\* whether or not the hashes agree, and a Bad Checksum line (name, computed
\* hash, length, expected hash) is printed exactly when they differ.
C6_ChecksumAdvisory ==
    [][(tpc = "pair" /\ pair_i' = pair_i + 1) =>
          LET f     == parts[pidx + 1].files[pair_i + 1]
              chunk == chunks[pair_i + 1]
          IN  /\ DictHas(new_data', f.name)
              /\ DictGet(new_data', f.name) = chunk
              /\ chunks' = chunks
              /\ (out' # out) <=> (Sha1(chunk) # f.sha1)
              /\ out' # out =>
                    out' = Append(out, [name |-> f.name, got |-> Sha1(chunk),
                                        length |-> Len(chunk), expected |-> f.sha1])
      ]_vars

C6_Witness ==
    /\ tpc = "pair"
    /\ pair_i = 2
    /\ Len(emitted) = 2
    /\ Len(out) = 1
    /\ out[1].name = emitted[2][1]
    /\ Sha1(emitted[1][2]) = parts[pidx + 1].files[1].sha1

\* What deinterleave makes of the chunk list inp: ways chunks per input
\* chunk, in input order; byte b of word w of group g goes to byte
\* g*word_size + b of output chunk w; a trailing partial group goes nowhere.
DeinterleaveRelation(inp, outp, ways, word_size) ==
    /\ Len(outp) = Len(inp) * ways
    /\ \A c \in 1..Len(inp) : \A w \in 0..(ways - 1) :
          LET o      == outp[(c - 1) * ways + w + 1]
              groups == Len(inp[c]) \div (ways * word_size)
          IN  /\ Len(o) = groups * word_size
              /\ \A g \in 0..(groups - 1) : \A b \in 0..(word_size - 1) :
                    o[g * word_size + b + 1]
                      = inp[c][g * ways * word_size + w * word_size + b + 1]

\* C8: every deinterleave step applied relates its input and output chunk
\* lists as DeinterleaveRelation says.
C8_Deinterleave ==
    \A k \in 1..(Len(hist) - 1) :
        LET t == parts[HistPart].transforms[k]
        IN  t.action = "deinterleave" =>
                DeinterleaveRelation(hist[k], hist[k + 1], t.ways, t.word_size_bytes)

C8_Witness ==
    /\ tpc = "pair"
    /\ Len(hist) = 3
    /\ parts[pidx + 1].transforms[1].action = "split"
    /\ parts[pidx + 1].transforms[2].action = "deinterleave"
    /\ parts[pidx + 1].transforms[2].ways = 2
    /\ hist[2] = <<<<1, 2, 3>>, <<4, 5, 6>>>>
    /\ hist[3] = <<<<1>>, <<2>>, <<4>>, <<5>>>>

\* C9: an endian step applied to chunks of even length exchanges the bytes
\* at 2k and 2k+1, keeps every length and the number of chunks, and two
\* endian steps in a row give back the chunks they started from.
C9_EndianInvolution ==
    \A k \in 1..(Len(hist) - 1) :
        LET ts == parts[HistPart].transforms
        IN  ts[k].action = "endian" =>
              /\ Len(hist[k + 1]) = Len(hist[k])
              /\ \A c \in 1..Len(hist[k]) :
                    LET a == hist[k][c]
                        b == hist[k + 1][c]
                    IN  Len(a) % 2 = 0 =>
                          /\ Len(b) = Len(a)
                          /\ \A j \in 0..((Len(a) \div 2) - 1) :
                                /\ b[2 * j + 1] = a[2 * j + 2]
                                /\ b[2 * j + 2] = a[2 * j + 1]
              /\ (k + 2 <= Len(hist) /\ ts[k + 1].action = "endian") =>
                    hist[k + 2] = hist[k]

C9_Witness ==
    /\ Len(hist) = 3
    /\ parts[HistPart].transforms[1].action = "endian"
    /\ parts[HistPart].transforms[2].action = "endian"
    /\ Len(hist[1][1]) = 4
    /\ hist[2] = <<<<2, 1, 4, 3>>>>
    /\ hist[3] = hist[1]

----------------------------------------------------------------------------
(* Properties of main.                                                     *)

Keys(d) == {d[i][1] : i \in 1..Len(d)}

UpTo(n) == [k \in 1..n |-> k]

\* C1: whatever fails while a container is read, parsed or processed, every
\* file of the list is attempted exactly once and in order, no exception
\* leaves the loop, and the run ends after the last file.
C1_EveryContainerAttempted ==
    <>[](mpc = "done" /\ attempted = UpTo(Len(in_files)))

\* The first of two containers failed, and the second was still processed
\* and written before the run ended.
C1_Witness ==
    /\ mpc = "done"
    /\ Len(in_files) = 2
    /\ errlog # <<>>
    /\ errlog[1].file = 1
    /\ attempted = <<1, 2>>
    /\ DictHas(written, <<102, 46, 122, 105, 112>>)

AbandonsOneEntry(err) == err \in {"TooManyOverrides", "TransformNYI"}

\* C2: when an entry fails on an override conflict or an unsupported step,
\* every other embedded-archive entry of the container is still processed.
C2_OtherEntriesStillProcessed ==
    (/\ mpc \in {"loop", "done"}
     /\ errlog # <<>>
     /\ errlog[Len(errlog)].file = fidx
     /\ AbandonsOneEntry(errlog[Len(errlog)].err))
    => \A k \in 1..Len(kpka_zips) :
          k # errlog[Len(errlog)].entry => \E h \in 1..Len(handled) : handled[h] = k

FirstSlash(name) ==
    CHOOSE i \in 1..Len(name) : name[i] = Slash /\ \A j \in 1..(i - 1) : name[j] # Slash

PrefixOf(name) == SubSeq(name, 1, FirstSlash(name) - 1)

StripPrefix(name) == SubSeq(name, FirstSlash(name) + 1, Len(name))

SharePrefix(ms) ==
    /\ ms # <<>>
    /\ \A k \in 1..Len(ms) :
          /\ HasChar(ms[k].filename, Slash)
          /\ PrefixOf(ms[k].filename) = PrefixOf(ms[1].filename)

HZip == <<104, 46, 122, 105, 112>>

\* The outcome C7 describes for the first entry, whose members are ms.
DefaultOutcome(ms) ==
    /\ DictHas(written, HZip)
    /\ IF SharePrefix(ms)
       THEN LET name == PrefixOf(ms[1].filename) \o DotZip
            IN  /\ Keys(written) = {name, HZip}
                /\ ZipRead(DictGet(written, name)) =
                      Ok([k \in 1..Len(ms) |->
                            Member(StripPrefix(ms[k].filename), ms[k].data)])
       ELSE Keys(written) = {HZip}

\* C7: without an override, members that share the prefix before their
\* first '/' are written to '<prefix>.zip' in order, content unchanged, the
\* prefix and separator removed from each name; otherwise the entry yields
\* no output; in both cases the next entry is processed.
C7_DefaultReconstruction ==
    (mpc = "done" /\ Len(kpka_zips) = 2) => DefaultOutcome(ZipRead(kpka_zips[1][2]).val)

AtMostOneSlash(name) ==
    \A i, j \in 1..Len(name) : (name[i] = Slash /\ name[j] = Slash) => i = j

\* The same outcome, for archives without nested member names.
DefaultReconstructionOfFlatNames ==
    (/\ mpc = "done"
     /\ Len(kpka_zips) = 2
     /\ \A k \in 1..Len(ZipRead(kpka_zips[1][2]).val) :
           AtMostOneSlash(ZipRead(kpka_zips[1][2]).val[k].filename))
    => DefaultOutcome(ZipRead(kpka_zips[1][2]).val)

BeginsWithSignature(entry) == Slice(entry[2], 0, 2) = PK

\* The entries of the dict d whose payload begins with the signature.
ArchivesOf(d) == SelectSeq(d, BeginsWithSignature)

\* C11: the filter never fails and keeps exactly the entries whose payload
\* begins with the archive signature, whatever the other payloads hold, so
\* the archive entries of the container go on to be processed.
C11_FilterTotalAndExact ==
    /\ \A i \in 1..Len(errlog) : errlog[i].err # "UnicodeDecodeError"
    /\ mpc \in {"entries", "rebuild", "transforms"} => kpka_zips = ArchivesOf(files)

\* The filter is exact on the containers it does not fail on.
FilterExactWhenItReturns ==
    mpc \in {"entries", "rebuild", "transforms"} => kpka_zips = ArchivesOf(files)

\* The descriptor the i-th iteration reads starts here.
DescriptorAt(i) == HeaderSize + DescriptorSize * (i - 1)

\* C12: the entry count and every descriptor's offset, compressed size,
\* decompressed size and flag are the little-endian values of their bytes,
\* on a little-endian and on a big-endian host alike.
C12_FieldsLittleEndianOnAnyHost ==
    /\ ppc \in {"loop", "returned"} => total_files = LittleValue(Slice(bytes, 8, 12))
    /\ \A i \in 1..Len(rlog) :
          /\ rlog[i].offset = LittleValue(Slice(bytes, DescriptorAt(i) + 8, DescriptorAt(i) + 16))
          /\ rlog[i].zsize = LittleValue(Slice(bytes, DescriptorAt(i) + 16, DescriptorAt(i) + 24))
          /\ rlog[i].size = LittleValue(Slice(bytes, DescriptorAt(i) + 24, DescriptorAt(i) + 32))
          /\ rlog[i].flag = LittleValue(Slice(bytes, DescriptorAt(i) + 32, DescriptorAt(i) + 40))

\* On a little-endian host the fields are the little-endian values.
FieldsLittleEndianOnLittleHost == byteorder = "little" => C12_FieldsLittleEndianOnAnyHost

====
